---- MODULE Spec2Model ----
(***************************************************************************)
(* Model of auslib/blobs/base.py: the three-way merge of blobs             *)
(* (merge_lists, merge_dicts), the schema_version dispatch of createBlob   *)
(* and Blob.validate.                                                      *)
(*                                                                         *)
(* Python values are encoded uniformly as records                          *)
(*    [t |-> runtime type name, v |-> scalar payload,                      *)
(*     items |-> elements of a list, fields |-> entries of a dict]         *)
(* so that type(x), ==, isinstance and dict.get can be modelled as the     *)
(* interpreter computes them.  Numbers carry their numeric value in v,     *)
(* strings carry the index of their text in v, None carries 0.             *)
(***************************************************************************)
EXTENDS Integers, Sequences, FiniteSets, TLC

VARIABLES ancestor, left, right, order, result, pc,
          data, blob, schemaCache, whitelist, errors, policyChecked, outcome, bpc

mergeVars == <<ancestor, left, right, order, result, pc>>
blobVars == <<data, blob, schemaCache, whitelist, errors, policyChecked, outcome, bpc>>
vars == <<ancestor, left, right, order, result, pc,
          data, blob, schemaCache, whitelist, errors, policyChecked, outcome, bpc>>

(***************************************************************************)
(* Bounds of the explored inputs.                                          *)
(***************************************************************************)
\* The longest list among the inputs.
MaxLen == 2

(***************************************************************************)
(* Python values.                                                          *)
(***************************************************************************)
NoFields == [k \in {} |-> 0]

Scalar(t, v) == [t |-> t, v |-> v, items |-> <<>>, fields |-> NoFields]
None == Scalar("NoneType", 0)
PyInt(n) == Scalar("int", n)
PyBool(n) == Scalar("bool", n)
PyFloat(n) == Scalar("float", n)
PyStr(n) == Scalar("str", n)
PyUnicode(n) == Scalar("unicode", n)
PyList(s) == [t |-> "list", v |-> 0, items |-> s, fields |-> NoFields]
PyDict(f) == [t |-> "dict", v |-> 0, items |-> <<>>, fields |-> f]

NumericTypes == {"int", "bool", "float"}
TextTypes == {"str", "unicode"}

\* x == y as Python 2 evaluates it: numbers compare by numeric value across
\* int, bool and float, str and unicode compare by text, lists compare
\* element by element, dicts entry by entry, None equals only None.
RECURSIVE PyEq(_, _)
PyEq(x, y) ==
    IF x.t \in NumericTypes /\ y.t \in NumericTypes THEN x.v = y.v
    ELSE IF x.t \in TextTypes /\ y.t \in TextTypes THEN x.v = y.v
    ELSE IF x.t = "list" /\ y.t = "list"
         THEN /\ Len(x.items) = Len(y.items)
              /\ \A i \in 1..Len(x.items) : PyEq(x.items[i], y.items[i])
    ELSE IF x.t = "dict" /\ y.t = "dict"
         THEN /\ DOMAIN x.fields = DOMAIN y.fields
              /\ \A k \in DOMAIN x.fields : PyEq(x.fields[k], y.fields[k])
    ELSE x.t = "NoneType" /\ y.t = "NoneType"

\* isinstance(i, type(x)): the same type, or a subclass of it (bool is a
\* subclass of int).
IsInstanceOfTypeOf(i, x) == i.t = x.t \/ (i.t = "bool" /\ x.t = "int")

\* i in result
PyIn(i, s) == \E j \in 1..Len(s) : PyEq(s[j], i)

\* result.index(i): the position of the first element equal to i.
PyIndex(s, i) == CHOOSE j \in 1..Len(s) :
                    /\ PyEq(s[j], i)
                    /\ \A h \in 1..(j - 1) : ~PyEq(s[h], i)

(***************************************************************************)
(* merge_lists: the union of the lists in first-seen order.               *)
(***************************************************************************)
\* AppendIfNew with the isinstance test inverted.
AppendIfNew_SameTypeAgain(res, i) ==
    IF ~PyIn(i, res) \/ IsInstanceOfTypeOf(i, res[PyIndex(res, i)])
    THEN Append(res, i)
    ELSE res

\* The body of the inner loop: one element i against the result so far.
AppendIfNew(res, i) ==
    IF ~PyIn(i, res) \/ ~IsInstanceOfTypeOf(i, res[PyIndex(res, i)])
    THEN Append(res, i)
    ELSE res

RECURSIVE MergeInto(_, _)
MergeInto(res, l) ==
    IF l = <<>> THEN res
    ELSE MergeInto(AppendIfNew(res, Head(l)), Tail(l))

\* merge_lists that leaves the first list out.
merge_lists_SkipFirst(a, l, r) == MergeInto(MergeInto(<<>>, l), r)

merge_lists(a, l, r) == MergeInto(MergeInto(MergeInto(<<>>, a), l), r)

(***************************************************************************)
(* merge_dicts(ancestor, left, right)                                      *)
(***************************************************************************)
\* What a call ends with: the value returned, or the exception raised
\* (err names it, key is the key its message names).
Returned(val) == [ok |-> TRUE, val |-> val, err |-> "", key |-> ""]
Raised(err, key) == [ok |-> FALSE, val |-> None, err |-> err, key |-> key]
\* No call has been made yet.
Pending == Raised("pending", "")

TypeMismatch == "type mismatch"
BothChanging == "left and right are both changing"
NoValue == "couldn't find value"
AttributeError == "AttributeError"
TypeError == "TypeError"

Keys == {"a", "b"}

\* d.get(key) and d.get(key, default)
Get(d, key) == IF key \in DOMAIN d.fields THEN d.fields[key] ELSE None
GetOr(d, key, default) == IF key \in DOMAIN d.fields THEN d.fields[key] ELSE default

\* The orders in which a set of keys can be iterated.
KeyOrders == {s \in [1..Cardinality(Keys) -> Keys] :
                 \A i, j \in 1..Cardinality(Keys) : s[i] = s[j] => i = j}

\* Lines 71-73: the types found at the key, NoneType discarded.
key_types(key, dicts) == {Get(dicts[i], key).t : i \in 1..3} \ {"NoneType"}

TypesClash(key, dicts) ==
    /\ Cardinality(key_types(key, dicts)) > 1
    /\ ~(key_types(key, dicts) \subseteq TextTypes)

\* MergeScalar that overlooks a change made by right alone.
MergeScalar_RightIgnored(key, a, l, r) ==
    IF key \in DOMAIN a.fields
    THEN IF /\ key \in DOMAIN l.fields
            /\ key \in DOMAIN r.fields
            /\ ~PyEq(a.fields[key], l.fields[key])
            /\ ~PyEq(a.fields[key], r.fields[key])
         THEN Raised(BothChanging, key)
         ELSE IF key \in DOMAIN l.fields /\ ~PyEq(a.fields[key], Get(l, key))
              THEN Returned(l.fields[key])
         ELSE Returned(a.fields[key])
    ELSE IF /\ key \in DOMAIN l.fields
            /\ key \in DOMAIN r.fields
            /\ ~PyEq(l.fields[key], r.fields[key])
         THEN Raised(BothChanging, key)
         ELSE IF key \in DOMAIN l.fields THEN Returned(l.fields[key])
         ELSE IF key \in DOMAIN r.fields THEN Returned(r.fields[key])
         ELSE Raised(NoValue, key)

\* MergeScalar that lets left win a key new on both sides.
MergeScalar_NewKeyLeftWins(key, a, l, r) ==
    IF key \in DOMAIN a.fields
    THEN IF /\ key \in DOMAIN l.fields
            /\ key \in DOMAIN r.fields
            /\ ~PyEq(a.fields[key], l.fields[key])
            /\ ~PyEq(a.fields[key], r.fields[key])
         THEN Raised(BothChanging, key)
         ELSE IF key \in DOMAIN l.fields /\ ~PyEq(a.fields[key], Get(l, key))
              THEN Returned(l.fields[key])
         ELSE IF key \in DOMAIN r.fields /\ ~PyEq(a.fields[key], Get(r, key))
              THEN Returned(r.fields[key])
         ELSE Returned(a.fields[key])
    ELSE IF key \in DOMAIN l.fields THEN Returned(l.fields[key])
         ELSE IF key \in DOMAIN r.fields THEN Returned(r.fields[key])
         ELSE Raised(NoValue, key)

\* Lines 81-98: the three-way merge of a scalar key.
MergeScalar(key, a, l, r) ==
    IF key \in DOMAIN a.fields
    THEN IF /\ key \in DOMAIN l.fields
            /\ key \in DOMAIN r.fields
            /\ ~PyEq(a.fields[key], l.fields[key])
            /\ ~PyEq(a.fields[key], r.fields[key])
         THEN Raised(BothChanging, key)
         ELSE IF key \in DOMAIN l.fields /\ ~PyEq(a.fields[key], Get(l, key))
              THEN Returned(l.fields[key])
         ELSE IF key \in DOMAIN r.fields /\ ~PyEq(a.fields[key], Get(r, key))
              THEN Returned(r.fields[key])
         ELSE Returned(a.fields[key])
    ELSE IF /\ key \in DOMAIN l.fields
            /\ key \in DOMAIN r.fields
            /\ ~PyEq(l.fields[key], r.fields[key])
         THEN Raised(BothChanging, key)
         ELSE IF key \in DOMAIN l.fields THEN Returned(l.fields[key])
         ELSE IF key \in DOMAIN r.fields THEN Returned(r.fields[key])
         ELSE Raised(NoValue, key)

\* Line 79: merge_lists over d.get(key, []); iterating a None raises.
MergeListKey(key, a, l, r) ==
    LET la == GetOr(a, key, PyList(<<>>))
        ll == GetOr(l, key, PyList(<<>>))
        lr == GetOr(r, key, PyList(<<>>))
    IN  IF la.t # "list" \/ ll.t # "list" \/ lr.t # "list"
        THEN Raised(TypeError, "")
        ELSE Returned(PyList(merge_lists(la.items, ll.items, lr.items)))

\* ords gives the iteration order of the key set at each nesting depth.
RECURSIVE merge_dicts(_, _, _, _)
RECURSIVE MergeKeys(_, _, _, _, _, _)

\* Lines 71-98: the body of the loop for one key.
MergeKey(key, a, l, r, ords) ==
    IF TypesClash(key, <<a, l, r>>) THEN Raised(TypeMismatch, key)
    ELSE IF \E d \in {a, l, r} : Get(d, key).t = "dict"
         THEN merge_dicts(GetOr(a, key, PyDict(NoFields)),
                          GetOr(l, key, PyDict(NoFields)),
                          GetOr(r, key, PyDict(NoFields)),
                          IF Len(ords) > 1 THEN Tail(ords) ELSE ords)
    ELSE IF \E d \in {a, l, r} : Get(d, key).t = "list"
         THEN MergeListKey(key, a, l, r)
    ELSE MergeScalar(key, a, l, r)

\* MergeKeys that skips a key that raises once an earlier key was merged.
RECURSIVE MergeKeys_SkipLaterFailure(_, _, _, _, _, _)
MergeKeys_SkipLaterFailure(visit, res, a, l, r, ords) ==
    IF visit = <<>> THEN Returned(PyDict(res))
    ELSE LET key == Head(visit)
             o == MergeKey(key, a, l, r, ords)
         IN  IF ~o.ok /\ DOMAIN res = {} THEN o
             ELSE IF ~o.ok
                  THEN MergeKeys_SkipLaterFailure(Tail(visit), res, a, l, r, ords)
             ELSE MergeKeys_SkipLaterFailure(Tail(visit),
                            [k \in DOMAIN res \cup {key} |->
                                IF k = key THEN o.val ELSE res[k]],
                            a, l, r, ords)

\* Lines 70-100: the loop over the keys, left to right through visit; res
\* holds the entries set so far.  The first exception ends the call.
MergeKeys(visit, res, a, l, r, ords) ==
    IF visit = <<>> THEN Returned(PyDict(res))
    ELSE LET key == Head(visit)
             o == MergeKey(key, a, l, r, ords)
         IN  IF ~o.ok THEN o
             ELSE MergeKeys(Tail(visit),
                            [k \in DOMAIN res \cup {key} |->
                                IF k = key THEN o.val ELSE res[k]],
                            a, l, r, ords)

\* Line 70 calls d.keys() on each of the three: one that is no dict (a None
\* handed down by line 77) raises AttributeError.
merge_dicts(a, l, r, ords) ==
    IF \E d \in {a, l, r} : d.t # "dict" THEN Raised(AttributeError, "")
    ELSE LET present == DOMAIN a.fields \cup DOMAIN l.fields \cup DOMAIN r.fields
             visit == SelectSeq(Head(ords), LAMBDA k : k \in present)
         IN  MergeKeys(visit, NoFields, a, l, r, ords)

(***************************************************************************)
(* createBlob(data)                                                        *)
(***************************************************************************)
NotSet == "schema_version is not set"
Unknown == "schema_version is unknown"
JSONDecodeError == "JSONDecodeError"

\* Lines 31-44.
blob_map ==
    [n \in {1, 2, 3, 4, 5, 6, 7, 8, 50, 1000, 4000, 5000} |->
        CASE n = 1 -> "ReleaseBlobV1"
          [] n = 2 -> "ReleaseBlobV2"
          [] n = 3 -> "ReleaseBlobV3"
          [] n = 4 -> "ReleaseBlobV4"
          [] n = 5 -> "ReleaseBlobV5"
          [] n = 6 -> "ReleaseBlobV6"
          [] n = 7 -> "ReleaseBlobV7"
          [] n = 8 -> "ReleaseBlobV8"
          [] n = 50 -> "DesupportBlob"
          [] n = 1000 -> "GMPBlobV1"
          [] n = 4000 -> "SuperBlob"
          [] n = 5000 -> "SystemAddonsBlob"]

\* A str handed to createBlob is modelled by what json.loads makes of it:
\* items is <<x>> for the JSON text of x and <<>> for a text that is no
\* JSON (v is the index of the text).
PyText(n, parse) == [t |-> "str", v |-> n, items |-> parse, fields |-> NoFields]

json_loads(x) ==
    IF x.items = <<>> THEN Raised(JSONDecodeError, "") ELSE Returned(x.items[1])

\* The truth value of x: None, zero, the empty string and empty containers
\* are false.
Truthy(x) ==
    IF x.t = "NoneType" THEN FALSE
    ELSE IF x.t \in NumericTypes \cup TextTypes THEN x.v # 0
    ELSE IF x.t = "list" THEN x.items # <<>>
    ELSE DOMAIN x.fields # {}

\* Line 50: if not schema_version
VersionNotSet(sv) == ~Truthy(sv)

\* The key of blob_map that sv hashes and compares equal to.
MapKey(sv) == CHOOSE n \in DOMAIN blob_map : PyEq(PyInt(n), sv)

\* An instance of class cls holding the entries of the mapping m.
Instance(cls, m) == [t |-> cls, v |-> 0, items |-> <<>>, fields |-> m.fields]

\* Lines 46-55.
createBlob(d) ==
    LET loaded == IF d.t \in TextTypes THEN json_loads(d) ELSE Returned(d)
    IN  IF ~loaded.ok THEN loaded
        ELSE IF loaded.val.t # "dict" THEN Raised(AttributeError, "")
        ELSE LET schema_version == Get(loaded.val, "schema_version")
             IN  IF VersionNotSet(schema_version) THEN Raised(NotSet, "")
                 ELSE IF schema_version.t \in {"list", "dict"}
                      THEN Raised(TypeError, "")
                 ELSE IF ~\E n \in DOMAIN blob_map : PyEq(PyInt(n), schema_version)
                      THEN Raised(Unknown, "")
                 ELSE Returned(Instance(blob_map[MapKey(schema_version)], loaded.val))

(***************************************************************************)
(* Blob.validate(product, whitelistedDomains)                              *)
(***************************************************************************)
BlobValidationError == "Invalid blob! See 'errors' for details."
ForbiddenDomain == "Blob contains forbidden domain(s)"

\* What validate ends with: it returns None, or raises err; a
\* BlobValidationError carries the messages in errors.
NotValidated == [ok |-> FALSE, err |-> "pending", errors |-> <<>>]
Validated == [ok |-> TRUE, err |-> "", errors |-> <<>>]
Invalid(err, messages) == [ok |-> FALSE, err |-> err, errors |-> messages]

\* The messages of validator.iter_errors(self) under the blob's schema: name
\* is required and a string, fileUrl is a string.
Violations(b) ==
    (IF "name" \notin DOMAIN b.fields THEN <<"'name' is a required property">>
     ELSE IF b.fields["name"].t \notin TextTypes
          THEN <<"name is not of type 'string'">>
     ELSE <<>>)
    \o
    (IF "fileUrl" \in DOMAIN b.fields /\ b.fields["fileUrl"].t \notin TextTypes
     THEN <<"fileUrl is not of type 'string'">>
     ELSE <<>>)

\* containsForbiddenDomain of the blob classes: the domain of a URL of the
\* blob (the v of its fileUrl) is not among the whitelisted ones.
containsForbiddenDomain(b, whitelistedDomains) ==
    /\ "fileUrl" \in DOMAIN b.fields
    /\ b.fields["fileUrl"].v \notin whitelistedDomains

\* getSchema: cache.get("blob_schema", self.jsonschema, loadSchema) loads the
\* schema of the blob's class once and keeps it.
getSchema(cache, b) == cache \cup {b.t}

\* HasErrors that lets a single message pass.
HasErrors_MoreThanOne(errs) == Len(errs) > 1

\* Line 126: if errors
HasErrors(errs) == errs # <<>>

(***************************************************************************)
(* The blob specification: createBlob, then validate step by step.         *)
(***************************************************************************)
MergeIdle ==
    /\ ancestor = PyDict(NoFields)
    /\ left = PyDict(NoFields)
    /\ right = PyDict(NoFields)
    /\ order = <<>>
    /\ result = Pending
    /\ pc = "idle"

VersionsTried == {PyInt(n) : n \in (-1..9) \cup {49, 50, 51, 1000, 4000, 5000, 5001}}
                 \cup {None, PyBool(1), PyFloat(1), PyStr(1)}
Names == {PyStr(1), PyInt(1)}
Urls == {PyStr(1), PyStr(2), PyInt(1)}
Domains == {1, 2}

\* A mapping with or without each of schema_version, name and fileUrl.
WithField(f, k, x) == [j \in DOMAIN f \cup {k} |-> IF j = k THEN x ELSE f[j]]
Mappings ==
    LET versioned == {NoFields} \cup
                     {WithField(NoFields, "schema_version", sv) : sv \in VersionsTried}
        named == versioned \cup {WithField(f, "name", x) : f \in versioned, x \in Names}
    IN  {PyDict(f) : f \in named}
        \cup {PyDict(WithField(f, "fileUrl", u)) : f \in named, u \in Urls}

\* Texts: no JSON, the JSON of a list, the JSON of two blobs.
Texts == {PyText(1, <<>>),
          PyText(2, <<PyList(<<>>)>>),
          PyText(3, <<PyDict(WithField(WithField(NoFields, "schema_version", PyInt(1)),
                                       "name", PyStr(1)))>>),
          PyText(4, <<PyDict(WithField(NoFields, "schema_version", PyInt(9)))>>)}

InitBlob ==
    /\ data \in Mappings \cup Texts
    /\ blob = Pending
    /\ schemaCache \in {{}, {blob_map[n] : n \in DOMAIN blob_map}}
    /\ whitelist = {}
    /\ errors = <<>>
    /\ policyChecked = FALSE
    /\ outcome = NotValidated
    /\ bpc = "start"
    /\ MergeIdle

CallCreateBlob ==
    /\ bpc = "start"
    /\ blob' = createBlob(data)
    /\ bpc' = IF blob'.ok THEN "created" ELSE "rejected"
    /\ UNCHANGED <<data, schemaCache, whitelist, errors, policyChecked, outcome>>
    /\ UNCHANGED mergeVars

\* Line 119: validate is called with a whitelist and gets its schema.
ValidateGetSchema ==
    /\ bpc = "created"
    /\ \E w \in SUBSET Domains : whitelist' = w
    /\ schemaCache' = getSchema(schemaCache, blob.val)
    /\ bpc' = "schema"
    /\ UNCHANGED <<data, blob, errors, policyChecked, outcome>>
    /\ UNCHANGED mergeVars

\* Line 125: every message of the validator is collected.
ValidateIterErrors ==
    /\ bpc = "schema"
    /\ errors' = Violations(blob.val)
    /\ bpc' = "checked"
    /\ UNCHANGED <<data, blob, schemaCache, whitelist, policyChecked, outcome>>
    /\ UNCHANGED mergeVars

\* Lines 126-127.
ValidateRaiseErrors ==
    /\ bpc = "checked"
    /\ HasErrors(errors)
    /\ outcome' = Invalid(BlobValidationError, errors)
    /\ bpc' = "done"
    /\ UNCHANGED <<data, blob, schemaCache, whitelist, errors, policyChecked>>
    /\ UNCHANGED mergeVars

\* Lines 129-130.
ValidateCheckDomains ==
    /\ bpc = "checked"
    /\ ~HasErrors(errors)
    /\ policyChecked' = TRUE
    /\ outcome' = IF containsForbiddenDomain(blob.val, whitelist)
                  THEN Invalid(ForbiddenDomain, <<>>)
                  ELSE Validated
    /\ bpc' = "done"
    /\ UNCHANGED <<data, blob, schemaCache, whitelist, errors>>
    /\ UNCHANGED mergeVars

NextBlob ==
    \/ CallCreateBlob
    \/ ValidateGetSchema
    \/ ValidateIterErrors
    \/ ValidateRaiseErrors
    \/ ValidateCheckDomains

SpecBlob == InitBlob /\ [][NextBlob]_vars


(***************************************************************************)
(* The inputs explored.                                                    *)
(***************************************************************************)
SeqsUpTo(E, n) == UNION {[1..k -> E] : k \in 0..n}
DictsOver(K, V) == UNION {[J -> V] : J \in SUBSET K}

\* None, 1, 2, 3, True, 1.0, 'x', u'x'
Scalars == {None, PyInt(1), PyInt(2), PyInt(3),
            PyBool(1), PyFloat(1), PyStr(1), PyUnicode(1)}

\* merge_lists: lists of 1, 2, True and 'x'.
ListUniverse == {PyInt(1), PyInt(2), PyBool(1), PyStr(1)}
ListInputs == {PyList(s) : s \in SeqsUpTo(ListUniverse, MaxLen)}

\* merge_dicts, first family: one key holding a scalar, a list or a nested
\* dict of up to two keys.
ListElems == {PyInt(1), PyInt(2), PyBool(1)}
InnerVals == {PyInt(1), PyInt(2)}
InnerDocs == {PyDict(f) : f \in DictsOver(Keys, InnerVals)}
RichVals == Scalars
            \cup {PyList(s) : s \in SeqsUpTo(ListElems, MaxLen)}
            \cup InnerDocs
RichDocs == {PyDict(f) : f \in DictsOver({"a"}, RichVals)}

\* merge_dicts, second family: up to two keys holding 1, 2 or 'x'.
PoorVals == {PyInt(1), PyInt(2), PyStr(1)}
PoorDocs == {PyDict(f) : f \in DictsOver(Keys, PoorVals)}

(***************************************************************************)
(* The merge specifications.                                               *)
(***************************************************************************)
BlobIdle ==
    /\ data = None
    /\ blob = Pending
    /\ schemaCache = {}
    /\ whitelist = {}
    /\ errors = <<>>
    /\ policyChecked = FALSE
    /\ outcome = NotValidated
    /\ bpc = "idle"

InitLists ==
    /\ ancestor \in ListInputs
    /\ left \in ListInputs
    /\ right \in ListInputs
    /\ order = <<>>
    /\ result = Pending
    /\ pc = "init"
    /\ BlobIdle

CallMergeLists ==
    /\ pc = "init"
    /\ result' = Returned(PyList(merge_lists(ancestor.items, left.items, right.items)))
    /\ pc' = "done"
    /\ UNCHANGED <<ancestor, left, right, order>>
    /\ UNCHANGED blobVars

NextLists == CallMergeLists

SpecLists == InitLists /\ [][NextLists]_vars

InitMerge ==
    /\ \/ ancestor \in RichDocs /\ left \in RichDocs /\ right \in RichDocs
       \/ ancestor \in PoorDocs /\ left \in PoorDocs /\ right \in PoorDocs
    /\ order = <<>>
    /\ result = Pending
    /\ pc = "init"
    /\ BlobIdle

\* A call of merge_dicts; the set of keys is iterated in some order, at the
\* top and in the nested dicts.
CallMergeDicts ==
    /\ pc = "init"
    /\ \E ords \in KeyOrders \X KeyOrders :
          /\ order' = ords
          /\ result' = merge_dicts(ancestor, left, right, ords)
    /\ pc' = "done"
    /\ UNCHANGED <<ancestor, left, right>>
    /\ UNCHANGED blobVars

NextMerge == CallMergeDicts

SpecMerge == InitMerge /\ [][NextMerge]_vars

(***************************************************************************)
(* Claims about merge_lists (checked under SpecLists).                     *)
(***************************************************************************)
\* The elements of s that equal no earlier element of s, in order.
RECURSIVE FirstSeen(_, _)
FirstSeen(seen, s) ==
    IF s = <<>> THEN seen
    ELSE FirstSeen(IF PyIn(Head(s), seen) THEN seen ELSE Append(seen, Head(s)),
                   Tail(s))

Walk == ancestor.items \o left.items \o right.items

\* C5: every element of ancestor, left or right equals some element of
\* merge_lists(ancestor, left, right), and the elements of the result stand
\* in the order of their first occurrence walking ancestor, left, right.
C5_NoDropFirstSeenOrder ==
    pc = "done" =>
        /\ result.ok
        /\ \A i \in 1..Len(Walk) : PyIn(Walk[i], result.val.items)
        /\ FirstSeen(<<>>, result.val.items) = FirstSeen(<<>>, Walk)

\* ancestor=[1], left=[1,2], right=[1,'x'] has been merged into [1,2,'x'].
C5_Witness ==
    /\ pc = "done"
    /\ ancestor = PyList(<<PyInt(1)>>)
    /\ left = PyList(<<PyInt(1), PyInt(2)>>)
    /\ right = PyList(<<PyInt(1), PyStr(1)>>)
    /\ result = Returned(PyList(<<PyInt(1), PyInt(2), PyStr(1)>>))

\* C10: the result of merge_lists never holds two elements that are equal
\* in value and of the same runtime type.
C10_NoSameTypeDuplicates ==
    pc = "done" =>
        \A i, j \in 1..Len(result.val.items) :
            i < j => ~(/\ PyEq(result.val.items[i], result.val.items[j])
                       /\ result.val.items[i].t = result.val.items[j].t)

(***************************************************************************)
(* Claims about merge_dicts (checked under SpecMerge).                     *)
(***************************************************************************)
IsScalar(x) == x.t \notin {"list", "dict"}

\* The key the loop of the top-level call visits first.
Present == DOMAIN ancestor.fields \cup DOMAIN left.fields \cup DOMAIN right.fields
FirstVisited(k) ==
    /\ Present # {}
    /\ Head(SelectSeq(order[1], LAMBDA j : j \in Present)) = k

\* No list reached through the dicts of x holds two equal elements.
RECURSIVE NoRepeats(_)
NoRepeats(x) ==
    IF x.t = "list"
    THEN \A i, j \in 1..Len(x.items) : i < j => ~PyEq(x.items[i], x.items[j])
    ELSE IF x.t = "dict"
    THEN \A k \in DOMAIN x.fields : NoRepeats(x.fields[k])
    ELSE TRUE

\* C1 as stated: merge_dicts(a, a, a) succeeds and equals a, for every a.
C1_Original ==
    (pc = "done" /\ left = ancestor /\ right = ancestor) =>
        (result.ok /\ PyEq(result.val, ancestor))

\* C1, amended: for every document a none of whose sequences holds two
\* equal elements, merge_dicts(a, a, a) succeeds and equals a.
C1_IdempotentWithoutRepeats ==
    (pc = "done" /\ left = ancestor /\ right = ancestor /\ NoRepeats(ancestor)) =>
        (result.ok /\ PyEq(result.val, ancestor))

\* {'a': [1, 2]} has been merged with itself.
C1_Witness ==
    /\ pc = "done"
    /\ ancestor = PyDict([k \in {"a"} |-> PyList(<<PyInt(1), PyInt(2)>>)])
    /\ left = ancestor
    /\ right = ancestor
    /\ result = Returned(ancestor)

\* to differs from from only by changes the merge can carry over: it keeps
\* every key, a scalar stays a scalar of the same type (or of the other
\* string type, or None on either side), a dict stays a dict changed in the
\* same way, a list stays a list that begins with the old one, and no list
\* of to holds two equal elements.
SameKind(x, y) ==
    \/ x.t = y.t
    \/ x.t \in TextTypes /\ y.t \in TextTypes
    \/ x.t = "NoneType" /\ IsScalar(y)
    \/ y.t = "NoneType" /\ IsScalar(x)

RECURSIVE CarriedOver(_, _)
CarriedOver(from, to) ==
    /\ SameKind(from, to)
    /\ NoRepeats(to)
    /\ to.t = "list" =>
          /\ Len(from.items) <= Len(to.items)
          /\ SubSeq(to.items, 1, Len(from.items)) = from.items
    /\ to.t = "dict" =>
          /\ DOMAIN from.fields \subseteq DOMAIN to.fields
          /\ \A k \in DOMAIN from.fields : CarriedOver(from.fields[k], to.fields[k])

\* C2 as stated: merge_dicts(a, a, r) succeeds and equals r, and
\* merge_dicts(a, l, a) succeeds and equals l, for all a, l, r.
C2_Original ==
    /\ (pc = "done" /\ left = ancestor) => (result.ok /\ PyEq(result.val, right))
    /\ (pc = "done" /\ right = ancestor) => (result.ok /\ PyEq(result.val, left))

\* C2, amended: when the changed side only adds keys, replaces scalars by
\* scalars of the same type (or None), and appends elements to sequences
\* that stay free of equal elements, the one-sided change wins:
\* merge_dicts(a, a, r) equals r and merge_dicts(a, l, a) equals l.
C2_OneSidedChangeWins ==
    /\ (pc = "done" /\ left = ancestor /\ CarriedOver(ancestor, right)) =>
          (result.ok /\ PyEq(result.val, right))
    /\ (pc = "done" /\ right = ancestor /\ CarriedOver(ancestor, left)) =>
          (result.ok /\ PyEq(result.val, left))

\* ancestor = left = {'a': [1]}, right = {'a': [1, 2]} has been merged
\* into right.
C2_Witness ==
    /\ pc = "done"
    /\ ancestor = PyDict([k \in {"a"} |-> PyList(<<PyInt(1)>>)])
    /\ left = ancestor
    /\ right = PyDict([k \in {"a"} |-> PyList(<<PyInt(1), PyInt(2)>>)])
    /\ result = Returned(right)

\* The key is a scalar in all three documents.
ScalarInAll(k) ==
    /\ k \in DOMAIN ancestor.fields /\ IsScalar(ancestor.fields[k])
    /\ k \in DOMAIN left.fields /\ IsScalar(left.fields[k])
    /\ k \in DOMAIN right.fields /\ IsScalar(right.fields[k])

\* C3 as stated: for a scalar key of all three documents, the both-changed
\* conflict is raised exactly when left's and right's values both differ from
\* the ancestor's and from each other; when both sides changed the key to the
\* same new value no conflict is raised and the result holds that value.
\* (Read for the key visited first, whose types do not clash.)
C3_ConflictOnlyWhenSidesDiffer ==
    pc = "done" =>
        \A k \in Keys :
            (ScalarInAll(k) /\ FirstVisited(k)
                /\ ~TypesClash(k, <<ancestor, left, right>>)) =>
                LET a == ancestor.fields[k]
                    l == left.fields[k]
                    r == right.fields[k]
                IN  /\ (result = Raised(BothChanging, k)) <=>
                           (~PyEq(a, l) /\ ~PyEq(a, r) /\ ~PyEq(l, r))
                    /\ (~PyEq(a, l) /\ PyEq(l, r)) =>
                           (result.err # BothChanging
                            /\ (result.ok => PyEq(result.val.fields[k], l)))

\* The types left and right hold do not clash at line 73.
TypesAgree(x, y) ==
    \/ x.t = y.t
    \/ x.t \in TextTypes /\ y.t \in TextTypes
    \/ x.t = "NoneType"
    \/ y.t = "NoneType"

\* The key is absent from ancestor and left and right set it to unequal
\* scalars.
NewKeySetTwice(k) ==
    /\ k \notin DOMAIN ancestor.fields
    /\ k \in DOMAIN left.fields /\ IsScalar(left.fields[k])
    /\ k \in DOMAIN right.fields /\ IsScalar(right.fields[k])
    /\ ~PyEq(left.fields[k], right.fields[k])

\* C4 as stated: a key absent from ancestor that left and right set to
\* different scalars, of any types, fails with the both-changed conflict
\* naming the key.  (Read for the key visited first.)
C4_Original ==
    pc = "done" =>
        \A k \in Keys :
            (NewKeySetTwice(k) /\ FirstVisited(k)) =>
                result = Raised(BothChanging, k)

\* C4, amended: a key absent from ancestor that left and right set to
\* unequal scalars of the same type (or of the two string types, or one of
\* them None) makes merge_dicts fail, with the both-changed conflict naming
\* the key when it is the key visited first.
C4_NewKeyConflict ==
    pc = "done" =>
        \A k \in Keys :
            (NewKeySetTwice(k) /\ TypesAgree(left.fields[k], right.fields[k])) =>
                /\ ~result.ok
                /\ FirstVisited(k) => result = Raised(BothChanging, k)

\* ancestor = {}, left = {'a': 1}, right = {'a': 2} raised the conflict.
C4_Witness ==
    /\ pc = "done"
    /\ ancestor = PyDict(NoFields)
    /\ left = PyDict([k \in {"a"} |-> PyInt(1)])
    /\ right = PyDict([k \in {"a"} |-> PyInt(2)])
    /\ result = Raised(BothChanging, "a")

\* C6: merge_dicts returns a document or fails with one of the three merge
\* conflicts, and in no other way.
C6_OnlyMergeConflicts ==
    pc = "done" =>
        (result.ok \/ result.err \in {TypeMismatch, BothChanging, NoValue})

AllOrders == KeyOrders \X KeyOrders

\* C7 as stated: whatever order the keys are visited in, merge_dicts ends
\* the same way: the same merged document, or the same conflict (reason and
\* key).
C7_Original ==
    pc = "done" =>
        \A ords \in AllOrders : merge_dicts(ancestor, left, right, ords) = result

\* C7, amended: whatever order the keys are visited in, merge_dicts either
\* returns the same merged document or fails; which failing key it reports
\* depends on the order.  (Every order's result is compared with that of
\* one fixed order.)
C7_SameDocumentOrFailure ==
    pc = "done" =>
        LET other == merge_dicts(ancestor, left, right,
                                 <<<<"a", "b">>, <<"a", "b">>>>)
        IN  /\ other.ok = result.ok
            /\ result.ok => other.val = result.val

\* A merge of two keys, both added on the left only, visited 'b' first, has
\* returned the document.
C7_Witness ==
    /\ pc = "done"
    /\ order[1] = <<"b", "a">>
    /\ ancestor = PyDict(NoFields)
    /\ left = PyDict([k \in Keys |-> PyInt(1)])
    /\ right = PyDict(NoFields)
    /\ result = Returned(left)

(***************************************************************************)
(* Claims about createBlob and Blob.validate (checked under SpecBlob).     *)
(***************************************************************************)
\* C8: createBlob on a mapping fails with the unknown-version error for
\* every integer schema_version outside the table (0 and negatives
\* included), fails with the not-set error only when schema_version is
\* absent (or null), and for a version of the table returns the variant
\* registered for it.
C8_VersionDispatch ==
    (bpc # "start" /\ data.t = "dict") =>
        LET present == "schema_version" \in DOMAIN data.fields
            sv == Get(data, "schema_version")
        IN  /\ (sv.t = "int" /\ sv.v \notin DOMAIN blob_map) =>
                   blob = Raised(Unknown, "")
            /\ blob = Raised(NotSet, "") => (~present \/ sv = None)
            /\ (sv.t = "int" /\ sv.v \in DOMAIN blob_map) =>
                   (blob.ok /\ blob.val.t = blob_map[sv.v])

\* C9: containsForbiddenDomain runs only after the schema found no
\* violation; when there are violations validate fails with a
\* BlobValidationError that carries every message and the domain check is
\* never invoked; the forbidden-domain failure occurs only for a blob the
\* schema accepts.
C9_PolicyAfterCleanSchema ==
    /\ policyChecked => (blob.ok /\ Violations(blob.val) = <<>>)
    /\ (bpc = "done" /\ Violations(blob.val) # <<>>) =>
          (/\ outcome = Invalid(BlobValidationError, Violations(blob.val))
           /\ ~policyChecked)
    /\ outcome.err = ForbiddenDomain => (blob.ok /\ Violations(blob.val) = <<>>)

\* validate has failed on a blob with two schema violations, whose fileUrl
\* is also outside the (empty) whitelist, with both messages and without
\* the domain check.
C9_Witness ==
    /\ bpc = "done"
    /\ whitelist = {}
    /\ "fileUrl" \in DOMAIN blob.val.fields
    /\ outcome.err = BlobValidationError
    /\ Len(outcome.errors) = 2
    /\ ~policyChecked

====
